---- MODULE Spec2Model ----
(***************************************************************************)
(* MKK Investment Tracker v1.9.5 (tracker_app.py): the logged-in session   *)
(* as a state machine.  One action is one user interaction, that is one    *)
(* run of the Streamlit script with one widget changed or button pressed,  *)
(* followed by the rerun the handler asks for.                             *)
(*                                                                         *)
(* Encoding of Python values:                                              *)
(*   dict            function (records are dicts with string keys)         *)
(*   None / NaN      <<>>                                                  *)
(*   optional float  <<>> (None, NaN) or <<x>>                             *)
(*   float           integer (whole currency units, whole shares)          *)
(*   ticker, text    sequence of one-character strings                     *)
(*   dividend date   day number                                            *)
(* Form inputs are the values the parsers money_to_float / shares_to_float *)
(* return for the typed text.                                              *)
(*                                                                         *)
(* Specifications:                                                         *)
(*   Spec        every interaction of the logged-in session                *)
(*   PriceSpec   add, edit, refresh and view only                          *)
(*   LedgerSpec  add, edit, dividend and delete, signed inputs             *)
(*   ViewSpec    the valuation views over bounded portfolios               *)
(*   PayoutSpec  the payout classifier over bounded dividend histories     *)
(***************************************************************************)
EXTENDS Integers, Sequences, FiniteSets, TLC

VARIABLES DATA, selected_portfolio, portfolio_selector, price_cache, clock, msg, last, view,
          source, payout_cache

vars ==
    <<DATA, selected_portfolio, portfolio_selector, price_cache, clock, msg, last, view, source,
      payout_cache>>

(* ---------------------------------------------------------------- bounds *)
\* Number of user interactions of the session (one per clock second).
MaxClock == 2

\* Number of events of a dividend history.
MaxEvents == 4

(* ------------------------------------------------------- Python helpers *)
None == <<>>

NaN == <<>>

EmptyDict == [k \in {} |-> 0]

\* dict.get(key, default)
Get(d, k, dflt) == IF k \in DOMAIN d THEN d[k] ELSE dflt

\* dict.setdefault(key, default): an existing key keeps its value
SetDefault(d, k, dflt) == IF k \in DOMAIN d THEN d ELSE (k :> dflt) @@ d

\* d[key] = value
Put(d, k, v) == (k :> v) @@ d

\* d.pop(key, None)
Pop(d, k) == [x \in (DOMAIN d) \ {k} |-> d[x]]

\* np.isfinite on an optional float
isfinite(p) == p # NaN

(* ------------------------------------------------------------- tickers *)
\* Texts a user can type into a ticker or confirmation field.
TickerTexts == {<<>>, <<" ">>, <<"a">>, <<" ", "a">>, <<"a", " ">>}

\* str.upper(), per character
upper_char(c) == IF c = "a" THEN "A" ELSE IF c = "b" THEN "B" ELSE c

upper(s) == [i \in 1..Len(s) |-> upper_char(s[i])]

RECURSIVE lstrip(_)
lstrip(s) == IF s # <<>> /\ Head(s) = " " THEN lstrip(Tail(s)) ELSE s

RECURSIVE rstrip(_)
rstrip(s) == IF s # <<>> /\ s[Len(s)] = " " THEN rstrip(SubSeq(s, 1, Len(s) - 1)) ELSE s

\* str.strip()
strip(s) == rstrip(lstrip(s))

(* ---------------------------------------------------------- load_portfolio *)
DefaultSettings == [currency |-> "USD", auto_price |-> TRUE]

EmptyPortfolio ==
    [holdings |-> EmptyDict, cash_uninvested |-> 0, settings |-> DefaultSettings,
     last_prices |-> EmptyDict, last_updated |-> None]

DefaultPortfolios == ("IRA" :> EmptyPortfolio) @@ ("Roth" :> EmptyPortfolio)

\* load_portfolio() when the user has no stored file
load_portfolio == [portfolios |-> DefaultPortfolios, version |-> "1.9.5"]

(* --------------------------------------------------------- price source *)
\* A price the source can quote.
Quote == 2

\* Results of one uncached fetch_price call: NaN (unavailable) or a price.
PriceResults == {NaN, <<Quote>>}

\* fetch_name_and_summary(ticker): memoised lookup; the symbol <<"A">> is
\* known to the source, every other lookup takes the except branch.
fetch_name_and_summary(tkr) ==
    IF tkr = <<"A">> THEN <<<<"A", "c", "o">>, "about">> ELSE <<tkr, "">>

(* ------------------------------------------------------ dividend history *)
\* What yf.Ticker(t).dividends gives for a ticker: ok = FALSE stands for None
\* or an exception, dates are the day numbers of the events of the index.
NoHistory == [ok |-> FALSE, dates |-> <<>>]

\* pd.Timestamp.utcnow(), as a day number
Today == 2000

\* line 261
Cutoff == Today - 3 * 365

\* s with x put in before its first greater element (s ascending)
RECURSIVE Insert(_, _)
Insert(s, x) ==
    IF s = <<>> THEN <<x>>
    ELSE IF x <= Head(s) THEN <<x>> \o s
    ELSE <<Head(s)>> \o Insert(Tail(s), x)

\* DatetimeIndex.sort_values() and the sort inside np.median
RECURSIVE sort_values(_)
sort_values(s) == IF s = <<>> THEN <<>> ELSE Insert(sort_values(Tail(s)), Head(s))

\* line 264: the day gaps of consecutive dates
Diffs(dates) == [i \in 1..(Len(dates) - 1) |-> dates[i + 1] - dates[i]]

\* twice np.median(diffs), diffs not empty
Median2(diffs) ==
    LET srt == sort_values(diffs)
        n == Len(srt)
    IN  IF n % 2 = 1 THEN 2 * srt[(n + 1) \div 2] ELSE srt[n \div 2] + srt[n \div 2 + 1]

\* Mutant of payout_label: the bounds are exclusive.
payout_label_exclusive(med2) ==
    IF med2 < 2 * 9 THEN "Weekly"
    ELSE IF med2 < 2 * 45 THEN "Monthly"
    ELSE IF med2 < 2 * 115 THEN "Quarterly"
    ELSE IF med2 < 2 * 220 THEN "Semiannual"
    ELSE IF med2 < 2 * 400 THEN "Annual"
    ELSE "Irregular/None"

\* lines 267-272, on twice the median
payout_label(med2) ==
    IF med2 <= 2 * 9 THEN "Weekly"
    ELSE IF med2 <= 2 * 45 THEN "Monthly"
    ELSE IF med2 <= 2 * 115 THEN "Quarterly"
    ELSE IF med2 <= 2 * 220 THEN "Semiannual"
    ELSE IF med2 <= 2 * 400 THEN "Annual"
    ELSE "Irregular/None"

\* lines 256-274; div is the history the source has for the ticker
fetch_dividend_frequency(div) ==
    IF ~div.ok \/ Len(div.dates) < 3 THEN "Irregular/None"
    ELSE LET dates == SelectSeq(sort_values(div.dates), LAMBDA d : d >= Cutoff)
         IN  IF Len(dates) < 3 THEN "Irregular/None"
             ELSE payout_label(Median2(Diffs(dates)))

\* The source in the sessions of Spec: A pays every quarter, four events
\* in the past year; the other symbols are unknown to it.
QuarterlySource ==
    (<<"A">> :> [ok |-> TRUE, dates |-> <<Today - 300, Today - 209, Today - 119, Today - 28>>])

(* ------------------------------------------------------------ the session *)
Portfolios == DATA["portfolios"]

\* Line 208: list(...).index(selected_portfolio) raises when the selected
\* name is no key of DATA["portfolios"]; the run then ends before any tab.
Alive == selected_portfolio \in DOMAIN Portfolios

\* st.session_state["DATA"]["portfolios"][st.session_state["selected_portfolio"]]
portfolio_data == Portfolios[selected_portfolio]

\* The tickers the Edit and Dividends tabs offer in their selectbox.
Tickers == IF Alive THEN DOMAIN portfolio_data["holdings"] ELSE {}

\* datetime.now().isoformat(timespec="seconds") of the current run
Now == <<clock + 1>>

\* Mutant of WithPortfolio: the portfolios share one dict object.
WithPortfolio_shared(P) == [DATA EXCEPT !["portfolios"] = [n \in DOMAIN @ |-> P]]

\* DATA with the selected portfolio replaced by P
WithPortfolio(P) == [DATA EXCEPT !["portfolios"] = Put(DATA["portfolios"], selected_portfolio, P)]

\* What the user did in the last interaction (the widget values of the run).
NoLog ==
    [op |-> "", tkr |-> <<>>, sh |-> 0, inv |-> 0, confirm |-> <<>>, cb |-> FALSE, mode |-> "",
     doc |-> EmptyDict]

Log(op, tkr, sh) == [NoLog EXCEPT !.op = op, !.tkr = tkr, !.sh = sh]

FormLog(op, tkr, f) == [NoLog EXCEPT !.op = op, !.tkr = tkr, !.sh = f.sh, !.inv = f.inv]

Msg(kind) == [kind |-> kind, added |-> 0, updated |-> 0]

\* fetch_price under st.cache_data: the tickers a run of the views asks the
\* source for are those of the selected portfolio that are not memoised.
\* tab_port (line 358) and tab_trueada (line 691) fetch only with auto_price.
ViewFetches(D, sel, cache) ==
    IF sel \in DOMAIN D["portfolios"]
       /\ D["portfolios"][sel]["settings"]["auto_price"]
    THEN (DOMAIN D["portfolios"][sel]["holdings"]) \ (DOMAIN cache)
    ELSE {}

\* The caches a run of the script over D can leave behind.
Render(D, sel, cache) ==
    {r @@ cache : r \in [ViewFetches(D, sel, cache) -> PriceResults]}

(* ------------------------------------------------------------ valuation *)
\* A float that is the quotient n / d of two whole numbers, d # 0, kept as
\* the pair <<n, d>> with d > 0; NaN stays <<>>.
Ratio(n, d) == IF d < 0 THEN <<-n, -d>> ELSE <<n, d>>

\* a * 100.0 for a quotient a
Times100(a) == <<a[1] * 100, a[2]>>

\* sum of f[t] over the keys t of f
RECURSIVE SumOver(_)
SumOver(f) ==
    IF DOMAIN f = {} THEN 0
    ELSE LET t == CHOOSE x \in DOMAIN f : TRUE
         IN  f[t] + SumOver([x \in (DOMAIN f) \ {t} |-> f[x]])

\* lines 358-359 and 691-692: the price a view uses for tkr; fetched is what
\* fetch_price returns in this run for the tickers the run asks for.
price_now(P, fetched, tkr) ==
    LET price == IF Get(P["settings"], "auto_price", TRUE) THEN fetched[tkr] ELSE NaN
    IN  IF price = NaN
        THEN IF tkr \in DOMAIN P["last_prices"] THEN <<P["last_prices"][tkr]>> ELSE NaN
        ELSE price

\* Mutant of market_value: a missing price counts as a value of zero.
market_value_zero(shares, price) == IF isfinite(price) THEN <<shares * price[1]>> ELSE <<0>>

\* line 360 (and 693)
market_value(shares, price) == IF isfinite(price) THEN <<shares * price[1]>> ELSE NaN

\* line 362
total_val(mv, divs) == IF isfinite(mv) THEN <<mv[1] + divs>> ELSE NaN

\* Mutant of overall_return: total_invested is subtracted without a price too.
overall_return_net(mv, invested, divs) == (IF isfinite(mv) THEN mv[1] ELSE 0) - invested + divs

\* line 363
overall_return(mv, invested, divs) == (IF isfinite(mv) THEN mv[1] - invested ELSE 0) + divs

\* Mutant of ret_pct: the guard invested > 0 is missing.
ret_pct_unguarded(ret, invested) == Times100(<<ret, invested>>)

\* line 364
ret_pct(ret, invested) == IF invested > 0 THEN Times100(Ratio(ret, invested)) ELSE NaN

\* Mutant of true_ada: the plain average cost, dividends not subtracted.
true_ada_gross(invested, divs, shares) == IF shares > 0 THEN Ratio(invested, shares) ELSE NaN

\* lines 366 and 690
true_ada(invested, divs, shares) == IF shares > 0 THEN Ratio(invested - divs, shares) ELSE NaN

\* lines 356-381: one row of the Portfolio table; payouts is the memo of
\* fetch_dividend_frequency after the run
port_row(P, fetched, payouts, tkr) ==
    LET rec == P["holdings"][tkr]
        shares == Get(rec, "shares", 0)
        invested == Get(rec, "total_invested", 0)
        price == price_now(P, fetched, tkr)
        mv == market_value(shares, price)
        divs == Get(rec, "dividends_collected", 0)
        ret == overall_return(mv, invested, divs)
    IN  [PayoutFreq |-> payouts[tkr],
         Shares |-> shares, TotalInvested |-> invested, PriceNow |-> price,
         CurrentValue |-> mv, DividendsCollected |-> divs, TotalValue |-> total_val(mv, divs),
         TrueADA |-> true_ada(invested, divs, shares), OverallReturn |-> ret,
         OverallReturnPct |-> ret_pct(ret, invested)]

\* Mutant of portfolio_return: the cash is left out.
portfolio_return_no_cash(total_value, cash, total_div, total_invested) ==
    total_value + total_div - total_invested

\* line 421
portfolio_return(total_value, cash, total_div, total_invested) ==
    total_value + cash + total_div - total_invested

\* lines 336-439: what the Portfolio tab shows
tab_port(P, fetched, payouts) ==
    LET rows == [t \in DOMAIN P["holdings"] |-> port_row(P, fetched, payouts, t)]
        total_invested == SumOver([t \in DOMAIN rows |-> rows[t].TotalInvested])
        \* line 383
        total_value ==
            SumOver([t \in {x \in DOMAIN rows : isfinite(rows[x].CurrentValue)} |->
                        rows[t].CurrentValue[1]])
        total_div == SumOver([t \in DOMAIN rows |-> rows[t].DividendsCollected])
        ret == portfolio_return(total_value, P["cash_uninvested"], total_div, total_invested)
    IN  IF DOMAIN P["holdings"] = {}
        THEN [rows |-> EmptyDict]
        ELSE [rows |-> rows, total_invested |-> total_invested, total_value |-> <<total_value>>,
              total_div |-> total_div, overall_return |-> ret,
              overall_return_pct |-> ret_pct(ret, total_invested)]

\* line 694
vs_true_pct(shares, price, ada) ==
    IF shares > 0 /\ isfinite(price) /\ isfinite(ada) /\ ada[1] # 0
    THEN Times100(Ratio(price[1] * ada[2] - ada[1], ada[1]))
    ELSE NaN

\* lines 687-703: one row of the True ADA table
ada_row(P, fetched, tkr) ==
    LET rec == P["holdings"][tkr]
        shares == Get(rec, "shares", 0)
        invested == Get(rec, "total_invested", 0)
        divs == Get(rec, "dividends_collected", 0)
        ada == true_ada(invested, divs, shares)
        price == price_now(P, fetched, tkr)
    IN  [Shares |-> shares, TotalInvested |-> invested, DividendsCollected |-> divs,
         TrueADA |-> ada, CurrentPrice |-> price, CurrentValue |-> market_value(shares, price),
         ReturnVsTrueADA |-> vs_true_pct(shares, price, ada)]

\* lines 678-752: what the True ADA tab shows
tab_trueada(P, fetched) ==
    LET rows == [t \in DOMAIN P["holdings"] |-> ada_row(P, fetched, t)]
        sum_shares == SumOver([t \in DOMAIN rows |-> rows[t].Shares])
        sum_invested == SumOver([t \in DOMAIN rows |-> rows[t].TotalInvested])
        sum_div == SumOver([t \in DOMAIN rows |-> rows[t].DividendsCollected])
        total_value ==
            SumOver([t \in {x \in DOMAIN rows : isfinite(rows[x].CurrentValue)} |->
                        rows[t].CurrentValue[1]])
    IN  IF DOMAIN P["holdings"] = {}
        THEN [rows |-> EmptyDict]
        ELSE [rows |-> rows, sum_div |-> sum_div,
              total_value |-> <<total_value + P["cash_uninvested"]>>,
              avg_cost_portfolio |-> IF sum_shares > 0 THEN Ratio(sum_invested, sum_shares) ELSE NaN,
              true_ada_portfolio |->
                  IF sum_shares > 0 THEN Ratio(sum_invested - sum_div, sum_shares) ELSE NaN,
              \* line 741: (avg - ada) / avg = sum_div / sum_invested
              improvement_pct |->
                  IF sum_shares > 0 /\ sum_invested > 0
                  THEN Times100(Ratio(sum_div, sum_invested)) ELSE NaN]

\* No tab is shown: no run yet, or the run stopped at line 208.
NoViews == [port |-> [rows |-> EmptyDict], trueada |-> [rows |-> EmptyDict], raised |-> TRUE]

\* fetch_dividend_frequency under st.cache_data (line 254): the memo after a
\* run over D, which classifies the tickers of the table that are not in it.
Payouts(D, sel, payouts) ==
    IF sel \in DOMAIN D["portfolios"]
    THEN [t \in (DOMAIN D["portfolios"][sel]["holdings"]) \ (DOMAIN payouts) |->
             fetch_dividend_frequency(Get(source, t, NoHistory))] @@ payouts
    ELSE payouts

\* What one run of the script over D shows; cache and payouts are the memos
\* after the run.
Views(D, sel, cache, payouts) ==
    IF sel \in DOMAIN D["portfolios"]
    THEN [port |-> tab_port(D["portfolios"][sel], cache, payouts),
          trueada |-> tab_trueada(D["portfolios"][sel], cache), raised |-> FALSE]
    ELSE NoViews

\* One interaction ends with DATA = D; the tabs of the last run were rendered
\* over Shown (the Portfolio and True ADA tabs come before the Migration tab
\* in the script, lines 334, 675, 754).
FinishShown(D, Shown, cache, m, l) ==
    /\ DATA' = D
    /\ price_cache' \in Render(Shown, selected_portfolio, cache)
    /\ payout_cache' = Payouts(Shown, selected_portfolio, payout_cache)
    /\ view' = Views(Shown, selected_portfolio, price_cache', payout_cache')
    /\ clock' = clock + 1
    /\ msg' = m
    /\ last' = l
    /\ UNCHANGED <<selected_portfolio, source>>

\* One interaction ends: the handler left D and cache, the views render
\* (after st.rerun(), or below the handler in the same run).
Finish(D, cache, m, l) == FinishShown(D, D, cache, m, l)

(* ------------------------------------------------------------ Add Holding *)
ShareInputs == {0, 2}

PriceInputs == {0, 1}

InvestedInputs == {0, 3}

\* The three dividend fields of the forms as entered: dividends collected,
\* last dividend amount, last dividend date (optional).
DivInputs == {<<0, 0, "">>, <<1, 1, "2024-01-15">>}

AddForms ==
    [ticker : TickerTexts, sh : ShareInputs, pp : PriceInputs, inv : InvestedInputs,
     div : DivInputs]

\* line 468
calculated_total(shares, price) == IF shares > 0 /\ price > 0 THEN shares * price ELSE 0

\* Mutant of add_calc_invested: shares * price comes before the typed total.
add_calc_invested_computed_first(f, auto_price, curr_price) ==
    LET calc_invested ==
            IF calculated_total(f.sh, f.pp) > 0 THEN calculated_total(f.sh, f.pp)
            ELSE IF f.inv > 0 THEN f.inv ELSE 0
    IN  IF calc_invested = 0 /\ auto_price /\ isfinite(curr_price)
        THEN f.sh * curr_price[1]
        ELSE calc_invested

\* lines 523-527; curr_price is the result of fetch_price(tkr)
add_calc_invested(f, auto_price, curr_price) ==
    LET calc_invested == IF f.inv > 0 THEN f.inv ELSE calculated_total(f.sh, f.pp)
    IN  IF calc_invested = 0 /\ auto_price /\ isfinite(curr_price)
        THEN f.sh * curr_price[1]
        ELSE calc_invested

\* lines 528-538
add_rec(f, tkr, calc_invested) ==
    [name |-> fetch_name_and_summary(tkr)[1],
     shares |-> f.sh,
     purchase_price |-> IF f.pp > 0 THEN <<f.pp>> ELSE None,
     total_invested |-> calc_invested,
     dividends_collected |-> f.div[1],
     last_div_amount |-> f.div[2],
     last_div_date |-> f.div[3],
     summary |-> fetch_name_and_summary(tkr)[2]]

\* lines 539-542
add_commit(P, f, tkr, curr_price) ==
    [P EXCEPT !["holdings"] = Put(@, tkr, add_rec(f, tkr, add_calc_invested(f, P["settings"]["auto_price"], curr_price))),
              !["last_prices"] = IF f.pp > 0 THEN Put(@, tkr, f.pp) ELSE @,
              !["last_updated"] = Now]

\* Mutant of add_outcome: the shares check of line 520 is missing.
add_outcome_no_shares_check(P, f) ==
    LET tkr == upper(strip(f.ticker))
    IN  IF tkr = <<>> THEN "Ticker required."
        ELSE IF tkr \in DOMAIN P["holdings"] THEN "already exists"
        ELSE "Added"

\* Mutant of add_outcome: the membership test of line 510 is missing.
add_outcome_no_exists_check(P, f) ==
    LET tkr == upper(strip(f.ticker))
    IN  IF tkr = <<>> THEN "Ticker required."
        ELSE IF f.sh <= 0 THEN "Shares must be positive."
        ELSE "Added"

\* which branch of lines 506-522 a submission takes
add_outcome(P, f) ==
    LET tkr == upper(strip(f.ticker))
    IN  IF tkr = <<>> THEN "Ticker required."
        ELSE IF tkr \in DOMAIN P["holdings"] THEN "already exists"
        ELSE IF f.sh <= 0 THEN "Shares must be positive."
        ELSE "Added"

\* fetch_price(tkr): the memoised result, or any result of the source
fetch_price(tkr) == IF tkr \in DOMAIN price_cache THEN {price_cache[tkr]} ELSE PriceResults

tab_add_submit(f) ==
    /\ Alive
    /\ clock < MaxClock
    /\ LET P == portfolio_data
           tkr == upper(strip(f.ticker))
           out == add_outcome(P, f)
           \* line 524: the handler asks for the current price
           fetches == add_calc_invested(f, FALSE, NaN) = 0 /\ P["settings"]["auto_price"]
       IN  IF out # "Added"
           THEN Finish(DATA, price_cache, Msg(out), FormLog("add", f.ticker, f))
           ELSE IF fetches
           THEN \E curr_price \in fetch_price(tkr) :
                    Finish(WithPortfolio(add_commit(P, f, tkr, curr_price)),
                           Put(price_cache, tkr, curr_price), Msg(out), FormLog("add", f.ticker, f))
           ELSE Finish(WithPortfolio(add_commit(P, f, tkr, NaN)), price_cache,
                       Msg(out), FormLog("add", f.ticker, f))
    /\ UNCHANGED portfolio_selector

(* ---------------------------------------------------------- Edit Holdings *)
EditForms ==
    [sh : ShareInputs, pp : PriceInputs, inv : InvestedInputs, div : DivInputs]

\* lines 580-584
edit_calc_invested(rec, f, auto_price, curr_price) ==
    LET calc_invested ==
            IF f.inv > 0 THEN f.inv
            ELSE IF f.pp > 0 THEN f.sh * f.pp
            ELSE Get(rec, "total_invested", 0)
    IN  IF calc_invested = 0 /\ auto_price /\ isfinite(curr_price)
        THEN f.sh * curr_price[1]
        ELSE calc_invested

\* lines 585-595
edit_rec(rec, sel, f, calc_invested) ==
    [name |-> Get(rec, "name", sel),
     shares |-> f.sh,
     purchase_price |-> IF f.pp > 0 THEN <<f.pp>> ELSE None,
     total_invested |-> calc_invested,
     dividends_collected |-> f.div[1],
     last_div_amount |-> f.div[2],
     last_div_date |-> f.div[3],
     summary |-> fetch_name_and_summary(sel)[2]]

\* lines 596-599
edit_commit(P, sel, f, curr_price) ==
    [P EXCEPT !["holdings"] = Put(@, sel, edit_rec(P["holdings"][sel], sel, f,
                                   edit_calc_invested(P["holdings"][sel], f, P["settings"]["auto_price"], curr_price))),
              !["last_prices"] = IF f.pp > 0 THEN Put(@, sel, f.pp) ELSE @,
              !["last_updated"] = Now]

tab_edit_save(sel, f) ==
    /\ Alive
    /\ clock < MaxClock
    /\ sel \in DOMAIN portfolio_data["holdings"]
    /\ LET P == portfolio_data
           \* line 581: the handler asks for the current price
           fetches == edit_calc_invested(P["holdings"][sel], f, FALSE, NaN) = 0
                      /\ P["settings"]["auto_price"]
       IN  IF fetches
           THEN \E curr_price \in fetch_price(sel) :
                    Finish(WithPortfolio(edit_commit(P, sel, f, curr_price)),
                           Put(price_cache, sel, curr_price), Msg("Updated"), FormLog("edit", sel, f))
           ELSE Finish(WithPortfolio(edit_commit(P, sel, f, NaN)), price_cache,
                       Msg("Updated"), FormLog("edit", sel, f))
    /\ UNCHANGED portfolio_selector

\* Mutant of delete_confirmed: "or" for "and".
delete_confirmed_either(sel, confirm, confirm_cb) ==
    upper(strip(confirm)) = upper(strip(sel)) \/ confirm_cb

\* line 613
delete_confirmed(sel, confirm, confirm_cb) ==
    upper(strip(confirm)) = upper(strip(sel)) /\ confirm_cb

\* lines 614-616
delete_commit(P, sel) ==
    [P EXCEPT !["holdings"] = Pop(@, sel), !["last_updated"] = Now]

tab_edit_delete(sel, confirm, confirm_cb) ==
    /\ Alive
    /\ clock < MaxClock
    /\ sel \in DOMAIN portfolio_data["holdings"]
    /\ IF delete_confirmed(sel, confirm, confirm_cb)
       THEN Finish(WithPortfolio(delete_commit(portfolio_data, sel)), price_cache,
                   Msg("Deleted"), [Log("delete", sel, 0) EXCEPT !.cb = confirm_cb, !.confirm = confirm])
       ELSE Finish(DATA, price_cache, Msg("Confirmation failed."),
                   [Log("delete", sel, 0) EXCEPT !.cb = confirm_cb, !.confirm = confirm])
    /\ UNCHANGED portfolio_selector

(* -------------------------------------------------------------- Dividends *)
DivAmounts == {0, 1}

DivDates == {"2024-02-01"}

\* Mutant of div_rec: the amount replaces dividends_collected.
div_rec_replace(rec, add_val, dt) ==
    Put(Put(Put(rec, "dividends_collected", add_val), "last_div_amount", add_val),
        "last_div_date", dt)

\* lines 641-646
div_rec(rec, add_val, dt) ==
    Put(Put(Put(rec, "dividends_collected", Get(rec, "dividends_collected", 0) + add_val),
            "last_div_amount", add_val),
        "last_div_date", dt)

\* lines 641-647
div_commit(P, sel, add_val, dt) ==
    [P EXCEPT !["holdings"] = Put(@, sel, div_rec(P["holdings"][sel], add_val, dt)),
              !["last_updated"] = Now]

tab_div_add(sel, add_val, dt) ==
    /\ Alive
    /\ clock < MaxClock
    /\ sel \in DOMAIN portfolio_data["holdings"]
    /\ Finish(WithPortfolio(div_commit(portfolio_data, sel, add_val, dt)), price_cache,
              Msg("Added dividend"), [Log("dividend", sel, add_val) EXCEPT !.mode = dt])
    /\ UNCHANGED portfolio_selector

(* ------------------------------------------------------------------- cash *)
CashInputs == {0, 5}

\* lines 431-433 and 791-793
cash_commit(P, new_cash) ==
    IF new_cash # P["cash_uninvested"]
    THEN [P EXCEPT !["cash_uninvested"] = new_cash, !["last_updated"] = Now]
    ELSE P

cash_update(new_cash) ==
    /\ Alive
    /\ clock < MaxClock
    /\ Finish(WithPortfolio(cash_commit(portfolio_data, new_cash)), price_cache,
              Msg(""), Log("cash", <<>>, new_cash))
    /\ UNCHANGED portfolio_selector

(* --------------------------------------------------------------- selector *)
\* lines 205-211: the selectbox stores the choice under its own key
\* "portfolio_selector"; its return value is not used and on_change only
\* asks for a rerun.
portfolio_selector_change(name) ==
    /\ Alive
    /\ clock < MaxClock
    /\ name \in DOMAIN Portfolios
    /\ portfolio_selector' = name
    /\ Finish(DATA, price_cache, Msg(""), [NoLog EXCEPT !.op = "select", !.mode = name])

(* --------------------------------------------------------------- settings *)
Currencies == {"USD", "EUR"}

\* lines 284-294
settings_commit(P, currency, auto_price) ==
    [P EXCEPT !["settings"] = [currency |-> currency, auto_price |-> auto_price]]

tab_settings_change(currency, auto_price) ==
    /\ Alive
    /\ clock < MaxClock
    /\ Finish(WithPortfolio(settings_commit(portfolio_data, currency, auto_price)), price_cache,
              Msg(""), [NoLog EXCEPT !.op = "settings"])
    /\ UNCHANGED portfolio_selector

\* lines 296-303 and 340-347: fetch_price.clear(), then one fetch per holding;
\* fetched maps each ticker of the portfolio to what the source returned.
refresh_commit(P, fetched) ==
    [P EXCEPT !["last_prices"] =
                  [t \in (DOMAIN @) \cup {h \in DOMAIN fetched : isfinite(fetched[h])} |->
                      IF t \in DOMAIN fetched /\ isfinite(fetched[t]) THEN fetched[t][1] ELSE @[t]],
              !["last_updated"] = Now]

\* "Update all prices now" on the Settings tab
update_all_prices ==
    /\ Alive
    /\ clock < MaxClock
    /\ \E fetched \in [DOMAIN portfolio_data["holdings"] -> PriceResults] :
           Finish(WithPortfolio(refresh_commit(portfolio_data, fetched)), fetched,
                  Msg("Updated tickers"), [NoLog EXCEPT !.op = "update_all"])
    /\ UNCHANGED portfolio_selector

\* "Refresh Prices" on the Portfolio tab, shown when there are holdings
refresh_prices ==
    /\ Alive
    /\ clock < MaxClock
    /\ DOMAIN portfolio_data["holdings"] # {}
    /\ \E fetched \in [DOMAIN portfolio_data["holdings"] -> PriceResults] :
           Finish(WithPortfolio(refresh_commit(portfolio_data, fetched)), fetched,
                  Msg("Refreshed tickers"), [NoLog EXCEPT !.op = "refresh"])
    /\ UNCHANGED portfolio_selector

PortfolioNames == {"", "IRA", "Taxable"}

\* lines 309-324
create_portfolio(new_portfolio_name) ==
    /\ Alive
    /\ clock < MaxClock
    /\ IF new_portfolio_name # "" /\ new_portfolio_name \notin DOMAIN Portfolios
       THEN Finish([DATA EXCEPT !["portfolios"] = Put(@, new_portfolio_name, EmptyPortfolio)],
                   price_cache, Msg("Created portfolio"),
                   [NoLog EXCEPT !.op = "create", !.mode = new_portfolio_name])
       ELSE Finish(DATA, price_cache,
                   Msg(IF new_portfolio_name = "" THEN "Enter a portfolio name."
                       ELSE "Portfolio name already exists."),
                   [NoLog EXCEPT !.op = "create", !.mode = new_portfolio_name])
    /\ UNCHANGED portfolio_selector

(* ------------------------------------------------------------------- JSON *)
\* A JSON document is a function (object) whose leaves are numbers, strings,
\* JNull, or <<"num", x>> for the number of a field that may also be null.
JNull == <<"null">>

\* A JSON value that is not an object (a list, a string, a number).
NotADict == [notdict |-> TRUE]

\* isinstance(v, dict): v has the dict methods get / setdefault / items
IsDict(v) == "notdict" \notin DOMAIN v

\* json.dumps of a field that holds None or a float
json_opt(v) == IF v = None THEN JNull ELSE <<"num", v[1]>>

\* json.load of null or a number
py_opt(j) == IF j = JNull THEN None ELSE <<j[2]>>

json_rec(rec) ==
    [k \in DOMAIN rec |-> IF k = "purchase_price" THEN json_opt(rec[k]) ELSE rec[k]]

py_rec(j) ==
    IF IsDict(j)
    THEN [k \in DOMAIN j |-> IF k = "purchase_price" THEN py_opt(j[k]) ELSE j[k]]
    ELSE j

json_portfolio(P) ==
    [k \in DOMAIN P |->
        IF k = "holdings" THEN [t \in DOMAIN P[k] |-> json_rec(P[k][t])]
        ELSE IF k = "last_updated" THEN json_opt(P[k])
        ELSE P[k]]

py_portfolio(j) ==
    [k \in DOMAIN j |->
        IF k = "holdings" THEN [t \in DOMAIN j[k] |-> py_rec(j[k][t])]
        ELSE IF k = "last_updated" THEN py_opt(j[k])
        ELSE j[k]]

\* line 796: json.dumps(st.session_state["DATA"], indent=2)
json_dumps(D) ==
    [k \in DOMAIN D |->
        IF k = "portfolios" THEN [n \in DOMAIN D[k] |-> json_portfolio(D[k][n])]
        ELSE IF k = "holdings" THEN [t \in DOMAIN D[k] |-> json_rec(D[k][t])]
        ELSE IF k = "last_updated" THEN json_opt(D[k])
        ELSE D[k]]

\* lines 761 and 802: json.load(upl)
json_load(doc) ==
    IF IsDict(doc)
    THEN [k \in DOMAIN doc |->
            IF k = "portfolios" THEN [n \in DOMAIN doc[k] |-> py_portfolio(doc[k][n])]
            ELSE IF k = "holdings" THEN [t \in DOMAIN doc[k] |-> py_rec(doc[k][t])]
            ELSE IF k = "last_updated" THEN py_opt(doc[k])
            ELSE doc[k]]
    ELSE doc

\* Mutant of rec_defaults: dividends_collected is assigned, not defaulted.
rec_defaults_assign(rec) ==
    Put(SetDefault(SetDefault(SetDefault(SetDefault(rec,
        "purchase_price", None), "last_div_amount", 0), "last_div_date", ""),
        "summary", ""), "dividends_collected", 0)

\* lines 123-127, 767-771, 827-831 (the five rec.setdefault calls)
rec_defaults(rec) ==
    SetDefault(SetDefault(SetDefault(SetDefault(SetDefault(rec,
        "purchase_price", None), "dividends_collected", 0), "last_div_amount", 0),
        "last_div_date", ""), "summary", "")

(* -------------------------------------------------------------- Migration *)
MergeModes == {"Add new tickers only", "Overwrite existing tickers with incoming data"}

\* Mutant of is_overwrite: every merge overwrites.
is_overwrite_always(merge_mode) == TRUE

\* merge_mode.startswith("Overwrite")
is_overwrite(merge_mode) == merge_mode = "Overwrite existing tickers with incoming data"

\* The orders in which a JSON object can list the keys S.
Orders(S) ==
    {o \in [1..Cardinality(S) -> S] : \A i, j \in 1..Cardinality(S) : i # j => o[i] # o[j]}

\* lines 766-778: the loop over inc_holdings.items(), from item i on.
\* rec.setdefault raises on a record that is no dict; the writes made by the
\* earlier iterations stay in the session's DATA.
RECURSIVE merge_loop(_, _, _, _, _, _, _)
merge_loop(H, inc_holdings, order, i, merge_mode, added, updated) ==
    IF i > Len(order)
    THEN [holdings |-> H, added |-> added, updated |-> updated, raised |-> FALSE]
    ELSE LET tkr == order[i]
             rec == inc_holdings[tkr]
         IN  IF ~IsDict(rec)
             THEN [holdings |-> H, added |-> added, updated |-> updated, raised |-> TRUE]
             ELSE IF tkr \notin DOMAIN H
             THEN merge_loop(Put(H, tkr, rec_defaults(rec)), inc_holdings, order, i + 1,
                             merge_mode, added + 1, updated)
             ELSE IF is_overwrite(merge_mode)
             THEN merge_loop(Put(H, tkr, rec_defaults(rec)), inc_holdings, order, i + 1,
                             merge_mode, added, updated + 1)
             ELSE merge_loop(H, inc_holdings, order, i + 1, merge_mode, added, updated)

\* Mutant of merge: a sync, holdings missing from the incoming set are dropped.
merge_sync(P, incoming, order, merge_mode) ==
    IF ~IsDict(incoming)
    THEN [portfolio |-> P, added |-> 0, updated |-> 0, raised |-> TRUE]
    ELSE LET inc == Get(incoming, "holdings", EmptyDict)
             r == merge_loop(P["holdings"], inc, order, 1, merge_mode, 0, 0)
         IN  [portfolio |-> [P EXCEPT !["holdings"] = [t \in (DOMAIN r.holdings) \cap (DOMAIN inc) |-> r.holdings[t]],
                                      !["last_updated"] = IF r.raised THEN @ ELSE Now],
              added |-> r.added, updated |-> r.updated, raised |-> r.raised]

\* lines 761-779 on the parsed document; order is the order of the keys of
\* its "holdings" object.
merge(P, incoming, order, merge_mode) ==
    IF ~IsDict(incoming)
    THEN [portfolio |-> P, added |-> 0, updated |-> 0, raised |-> TRUE]
    ELSE LET r == merge_loop(P["holdings"], Get(incoming, "holdings", EmptyDict), order, 1,
                             merge_mode, 0, 0)
         IN  [portfolio |-> [P EXCEPT !["holdings"] = r.holdings,
                                      !["last_updated"] = IF r.raised THEN @ ELSE Now],
              added |-> r.added, updated |-> r.updated, raised |-> r.raised]

\* A holding record without the optional fields (and without a name).
MinimalRec == [shares |-> 1, total_invested |-> 3]

FullRec ==
    [name |-> <<"a">>, shares |-> 2, purchase_price |-> JNull, total_invested |-> 0,
     dividends_collected |-> 1, last_div_amount |-> 1, last_div_date |-> "2023-12-01",
     summary |-> "old"]

\* A portfolio_data.json of an older version: top-level holdings, one record
\* without the optional fields, one under a lower-case key.
LegacyDoc ==
    [holdings |-> (<<"A">> :> MinimalRec) @@ (<<"a">> :> FullRec),
     cash_uninvested |-> 5]

\* A document with a holdings entry that is not an object.
BrokenDoc ==
    [holdings |-> (<<"A">> :> [shares |-> 2, total_invested |-> 1, dividends_collected |-> 1])
                  @@ (<<"A", "A">> :> NotADict)]

\* The files a user can upload to the Migration tab, besides the backup the
\* app itself produces.
MergeDocs == {LegacyDoc, BrokenDoc, NotADict}

tab_migrate_merge(doc, order, merge_mode) ==
    /\ Alive
    /\ clock < MaxClock
    /\ LET incoming == json_load(doc)
           r == merge(portfolio_data, incoming, order, merge_mode)
           l == [NoLog EXCEPT !.op = "merge", !.mode = merge_mode, !.doc = doc]
       IN  /\ order \in Orders(IF IsDict(incoming) THEN DOMAIN Get(incoming, "holdings", EmptyDict) ELSE {})
           /\ IF r.raised
              \* line 784: no rerun, the tabs above were rendered before the merge
              THEN FinishShown(WithPortfolio(r.portfolio), DATA, price_cache,
                               Msg("Failed to merge"), l)
              ELSE Finish(WithPortfolio(r.portfolio), price_cache,
                          [kind |-> "Merged successfully", added |-> r.added,
                           updated |-> r.updated], l)
    /\ UNCHANGED portfolio_selector

(* ----------------------------------------------------------------- Backup *)
\* lines 821-831 (and 117-127): defaults of one portfolio and of its records
portfolio_defaults(portfolio) ==
    LET q == SetDefault(SetDefault(SetDefault(SetDefault(SetDefault(portfolio,
                 "holdings", EmptyDict), "cash_uninvested", 0), "settings", DefaultSettings),
                 "last_prices", EmptyDict), "last_updated", None)
    IN  [q EXCEPT !["holdings"] = [t \in DOMAIN @ |-> rec_defaults(@[t])]]

\* An exception in lines 802-831: a value that must be a dict is none.
restore_raises(incoming) ==
    \/ ~IsDict(incoming)
    \/ \E n \in DOMAIN Get(incoming, "portfolios", EmptyDict) :
           LET portfolio == incoming["portfolios"][n]
           IN  \/ ~IsDict(portfolio)
               \/ \E t \in DOMAIN Get(portfolio, "holdings", EmptyDict) :
                      ~IsDict(portfolio["holdings"][t])

\* lines 803-833: the new st.session_state["DATA"]
restore(incoming) ==
    LET a == Put(SetDefault(incoming, "portfolios", DefaultPortfolios), "version", "1.9.5")
        b == [a EXCEPT !["portfolios"] = [n \in DOMAIN @ |-> portfolio_defaults(@[n])]]
    IN  Put(b, "last_updated", Now)

\* A backup that lists one portfolio, without its optional keys.
PartialDoc == [portfolios |-> ("IRA" :> [holdings |-> (<<"B">> :> MinimalRec)])]

\* A backup of a user who holds something in the second portfolio.
RothDoc ==
    [portfolios |->
        ("IRA" :> json_portfolio(EmptyPortfolio))
        @@ ("Roth" :> [holdings |-> (<<"A">> :> MinimalRec), cash_uninvested |-> 7,
                       settings |-> [currency |-> "EUR", auto_price |-> FALSE],
                       last_prices |-> (<<"A">> :> 4)]),
     version |-> "1.9.5"]

\* A backup of a user whose only portfolio is called Taxable.
TaxableDoc == [portfolios |-> ("Taxable" :> json_portfolio(EmptyPortfolio)), version |-> "1.9.5"]

\* A backup with a portfolio that is not an object.
BrokenBackup == [portfolios |-> ("IRA" :> json_portfolio(EmptyPortfolio)) @@ ("Roth" :> NotADict)]

\* The files a user can upload to the Backup tab, besides the current backup.
RestoreDocs == {LegacyDoc, PartialDoc, RothDoc, TaxableDoc, BrokenBackup, NotADict}

tab_backup_restore(doc) ==
    /\ Alive
    /\ clock < MaxClock
    /\ LET incoming == json_load(doc)
           l == [NoLog EXCEPT !.op = "restore", !.doc = doc]
       IN  IF restore_raises(incoming)
           THEN Finish(DATA, price_cache, Msg("Failed to restore"), l)
           ELSE Finish(restore(incoming), price_cache, Msg("Backup restored"), l)
    /\ UNCHANGED portfolio_selector

(* ---------------------------------------------------------- specification *)
\* The session right after a login of a user without a stored file
\* (lines 171-173, 131-149).
Init ==
    /\ DATA = load_portfolio
    /\ selected_portfolio = "IRA"
    /\ portfolio_selector = "IRA"
    /\ price_cache = EmptyDict
    /\ clock = 0
    /\ msg = Msg("")
    /\ last = NoLog
    /\ source = QuarterlySource
    /\ payout_cache = EmptyDict
    /\ view = Views(DATA, selected_portfolio, price_cache, payout_cache)

Next ==
    \/ \E f \in AddForms : tab_add_submit(f)
    \/ \E sel \in Tickers, f \in EditForms : tab_edit_save(sel, f)
    \/ \E sel \in Tickers, confirm \in TickerTexts, cb \in BOOLEAN :
           tab_edit_delete(sel, confirm, cb)
    \/ \E sel \in Tickers, a \in DivAmounts, dt \in DivDates :
           tab_div_add(sel, a, dt)
    \/ \E c \in CashInputs : cash_update(c)
    \/ \E name \in DOMAIN Portfolios : portfolio_selector_change(name)
    \/ \E cur \in Currencies, ap \in BOOLEAN : tab_settings_change(cur, ap)
    \/ update_all_prices
    \/ refresh_prices
    \/ \E name \in PortfolioNames : create_portfolio(name)
    \/ \E doc \in MergeDocs \cup {json_dumps(DATA)}, mode \in MergeModes :
           \E order \in Orders(IF IsDict(doc) THEN DOMAIN Get(doc, "holdings", EmptyDict) ELSE {}) :
               tab_migrate_merge(doc, order, mode)
    \/ \E doc \in RestoreDocs \cup {json_dumps(DATA)} : tab_backup_restore(doc)

Spec == Init /\ [][Next]_vars

\* The sessions of a user who only adds, edits, refreshes prices and views.
NextPrices ==
    \/ \E f \in AddForms : tab_add_submit(f)
    \/ \E sel \in Tickers, f \in EditForms : tab_edit_save(sel, f)
    \/ update_all_prices
    \/ refresh_prices
    \/ \E name \in DOMAIN Portfolios : portfolio_selector_change(name)

PriceSpec == Init /\ [][NextPrices]_vars

(* --------------------------------------------- the ledger on its own *)
\* Parsed numbers of the form fields, negative texts such as "-1" included
\* (shares_to_float and money_to_float keep the sign).
SignedShareInputs == {-1, 0, 2}

SignedPriceInputs == {-1, 0, 1}

SignedInvestedInputs == {-3, 0, 3}

\* The dividend fields of the forms, a negative amount included.
SignedDivInputs == DivInputs \cup {<<-1, -1, "">>}

\* Parsed amounts of the Dividends tab (_money_to_float keeps the sign).
SignedDivAmounts == {-1, 0, 1}

SignedAddForms ==
    [ticker : {<<"a">>, <<"b">>}, sh : SignedShareInputs, pp : SignedPriceInputs,
     inv : SignedInvestedInputs, div : SignedDivInputs]

SignedEditForms ==
    [sh : SignedShareInputs, pp : SignedPriceInputs, inv : SignedInvestedInputs,
     div : SignedDivInputs]

\* The sessions of a user who only adds, edits, enters dividends and deletes.
NextLedger ==
    \/ \E f \in SignedAddForms : tab_add_submit(f)
    \/ \E sel \in Tickers, f \in SignedEditForms : tab_edit_save(sel, f)
    \/ \E sel \in Tickers, a \in SignedDivAmounts, dt \in DivDates : tab_div_add(sel, a, dt)
    \/ \E sel \in Tickers, confirm \in TickerTexts, cb \in BOOLEAN :
           tab_edit_delete(sel, confirm, cb)

LedgerSpec == Init /\ [][NextLedger]_vars

(* ------------------------------------------------- the views on their own *)
ViewTickers == {<<"A">>, <<"B">>}

\* Holding records as the Add and Edit tabs store them, by the three fields
\* the views read.
ViewRecs ==
    {rec_defaults([name |-> <<"x">>, shares |-> s, total_invested |-> i,
                   dividends_collected |-> d]) :
        s \in {0, 1, 3}, i \in {0, 5}, d \in {0, 1, 7}}

\* Prices the last_prices map can hold.
LastPrices == {4}

ViewPortfolios ==
    {[holdings |-> h, cash_uninvested |-> c, settings |-> [currency |-> "USD", auto_price |-> ap],
      last_prices |-> lp, last_updated |-> None] :
        h \in [ViewTickers -> ViewRecs], c \in CashInputs, ap \in BOOLEAN,
        lp \in UNION {[T -> LastPrices] : T \in SUBSET ViewTickers}}

\* A session whose selected portfolio holds two tickers; nothing is shown yet.
InitView ==
    /\ DATA \in {[portfolios |-> ("IRA" :> P) @@ ("Roth" :> EmptyPortfolio), version |-> "1.9.5"] :
                    P \in ViewPortfolios}
    /\ selected_portfolio = "IRA"
    /\ portfolio_selector = "IRA"
    /\ price_cache = EmptyDict
    /\ clock = 0
    /\ msg = Msg("")
    /\ last = NoLog
    /\ source = QuarterlySource
    /\ payout_cache = EmptyDict
    /\ view = NoViews

\* A run of the script that renders the tabs and changes no data.
NextView == \E name \in DOMAIN Portfolios : portfolio_selector_change(name)

ViewSpec == InitView /\ [][NextView]_vars

(* ----------------------------------------------- the payout classifier *)
\* Day gaps between two events of a history, around the five thresholds.
GapSet == {9, 10, 45, 46, 115, 116, 220, 221, 400, 401}

\* The dates start, start + gaps[1], start + gaps[1] + gaps[2], ...
RECURSIVE DatesFrom(_, _)
DatesFrom(start, gaps) ==
    IF gaps = <<>> THEN <<start>>
    ELSE <<start>> \o DatesFrom(start + Head(gaps), Tail(gaps))

Reverse(s) == [i \in 1..Len(s) |-> s[Len(s) + 1 - i]]

\* Histories of up to max events, the first one the day before the cutoff or
\* on it, listed in either order; no history; an empty history.
Histories(max) ==
    {NoHistory, [ok |-> TRUE, dates |-> <<>>]}
    \cup {[ok |-> TRUE, dates |-> seq] :
            seq \in UNION {{DatesFrom(start, gaps), Reverse(DatesFrom(start, gaps))} :
                              start \in {Cutoff - 1, Cutoff},
                              gaps \in UNION {[1..n -> GapSet] : n \in 0..(max - 1)}}}

\* A session that holds A, with any of the histories at the source.
InitPayout ==
    /\ DATA = [load_portfolio EXCEPT !["portfolios"]["IRA"]["holdings"] =
                   (<<"A">> :> rec_defaults([name |-> <<"A">>, shares |-> 1, total_invested |-> 5]))]
    /\ selected_portfolio = "IRA"
    /\ portfolio_selector = "IRA"
    /\ price_cache = EmptyDict
    /\ clock = 0
    /\ msg = Msg("")
    /\ last = NoLog
    /\ source \in {(<<"A">> :> h) : h \in Histories(MaxEvents)}
    /\ payout_cache = EmptyDict
    /\ view = NoViews

PayoutSpec == InitPayout /\ [][NextView]_vars

(* ================================================================ claims *)
\* The holdings of the selected portfolio before and after a step.
H == portfolio_data["holdings"]

Hnext == DATA'["portfolios"][selected_portfolio]["holdings"]

\* The holding t of portfolio n has zero shares and money invested.
InvestedWithoutShares(n, t) ==
    LET rec == Portfolios[n]["holdings"][t]
    IN  Get(rec, "shares", 0) = 0 /\ Get(rec, "total_invested", 0) > 0

\* C1: in every reachable state no holding has shares = 0 together with
\* total_invested > 0 (an add or edit that would produce one is rejected).
\* The Edit tab saves such a record: this is the claim, and it is violated.
C1_NoInvestedWithoutShares ==
    \A n \in DOMAIN Portfolios : \A t \in DOMAIN Portfolios[n]["holdings"] :
        ~InvestedWithoutShares(n, t)

\* C2: an Add Holding submission with parsed shares <= 0 changes nothing of
\* DATA (no holding created; holdings, last_prices, cash_uninvested and
\* last_updated unchanged) and is answered with an error.
C2_AddNonPositiveSharesRejected ==
    [][(last'.op = "add" /\ last'.sh <= 0) =>
          /\ DATA' = DATA
          /\ msg'.kind \in {"Ticker required.", "already exists", "Shares must be positive."}]_vars

\* C2 witness: shares = 0 with total invested 3 was submitted for a new
\* ticker and refused.
C2_Witness ==
    /\ last.op = "add" /\ last.sh = 0 /\ last.inv = 3
    /\ msg.kind = "Shares must be positive."
    /\ Alive /\ <<"A">> \notin DOMAIN H /\ last.tkr = <<"a">>

\* C3: Add Holding creates a holding only when the stripped, upper-cased
\* ticker is non-empty and no key of the selected portfolio's holdings; an
\* add for an empty or existing ticker leaves DATA unchanged, and a
\* successful add leaves every existing holding record as it was.
C3_AddOnlyNewTicker ==
    [][last'.op = "add" =>
          LET tkr == upper(strip(last'.tkr))
          IN  /\ (tkr = <<>> \/ tkr \in DOMAIN H) => DATA' = DATA
              /\ DATA' # DATA =>
                    /\ tkr # <<>> /\ tkr \notin DOMAIN H
                    /\ DOMAIN Hnext = (DOMAIN H) \cup {tkr}
                    /\ \A t \in DOMAIN H : Hnext[t] = H[t]
              /\ (DATA' # DATA /\ last'.tkr \in {<<"a">>, <<" ", "a">>, <<"a", " ">>}) =>
                    <<"A">> \in DOMAIN Hnext]_vars

\* C3 witness: "a " was submitted while A was held, and refused.
C3_Witness ==
    /\ last.op = "add" /\ last.tkr = <<"a", " ">> /\ last.sh > 0
    /\ msg.kind = "already exists"
    /\ Alive /\ <<"A">> \in DOMAIN H

\* C4: a delete request removes the selected holding only when the typed
\* text matches the ticker (compared stripped and upper-cased, line 613) and
\* the box is checked; otherwise DATA is unchanged and the holding remains.
C4_DeleteNeedsBothConfirmations ==
    [][last'.op = "delete" =>
          LET sel == last'.tkr
              both == upper(strip(last'.confirm)) = upper(strip(sel)) /\ last'.cb
          IN  /\ both => (sel \notin DOMAIN Hnext /\ \A t \in (DOMAIN H) \ {sel} : t \in DOMAIN Hnext /\ Hnext[t] = H[t])
              /\ ~both => (DATA' = DATA /\ sel \in DOMAIN Hnext /\ msg'.kind = "Confirmation failed.")]_vars

\* C4 witness: the right ticker text with the box unchecked was refused.
C4_Witness ==
    /\ last.op = "delete" /\ ~last.cb /\ upper(strip(last.confirm)) = last.tkr
    /\ msg.kind = "Confirmation failed."
    /\ Alive /\ last.tkr \in DOMAIN H

\* C5: a dividend entry of amount a on holding t adds a to
\* dividends_collected(t), replaces last_div_amount(t) and last_div_date(t),
\* and leaves every other field of t, every other holding, cash_uninvested,
\* last_prices, settings and every other portfolio unchanged.
C5_DividendEntryFrame ==
    [][last'.op = "dividend" =>
          LET t == last'.tkr
              a == last'.sh
              P == portfolio_data
              Q == DATA'["portfolios"][selected_portfolio]
              touched == {"dividends_collected", "last_div_amount", "last_div_date"}
          IN  /\ Hnext[t]["dividends_collected"] = Get(H[t], "dividends_collected", 0) + a
              /\ Hnext[t]["last_div_amount"] = a
              /\ Hnext[t]["last_div_date"] = last'.mode
              /\ DOMAIN Hnext[t] = (DOMAIN H[t]) \cup touched
              /\ \A k \in (DOMAIN H[t]) \ touched : Hnext[t][k] = H[t][k]
              /\ DOMAIN Hnext = DOMAIN H
              /\ \A u \in (DOMAIN H) \ {t} : Hnext[u] = H[u]
              /\ Q["cash_uninvested"] = P["cash_uninvested"]
              /\ Q["last_prices"] = P["last_prices"]
              /\ Q["settings"] = P["settings"]
              /\ DOMAIN DATA'["portfolios"] = DOMAIN Portfolios
              /\ \A n \in (DOMAIN Portfolios) \ {selected_portfolio} :
                     DATA'["portfolios"][n] = Portfolios[n]]_vars

\* C5 witness: a dividend of 1 was entered on a holding that had collected 1
\* and had another last dividend date.
C5_Witness ==
    /\ last.op = "dividend" /\ last.sh = 1
    /\ Alive /\ last.tkr \in DOMAIN H
    /\ H[last.tkr]["dividends_collected"] = 2
    /\ H[last.tkr]["last_div_date"] = "2024-02-01"
    /\ Cardinality(DOMAIN H) > 1

\* A record with its absent optional fields filled with the defaults.
Defaulted(rec) ==
    rec @@ [purchase_price |-> None, dividends_collected |-> 0, last_div_amount |-> 0,
            last_div_date |-> "", summary |-> ""]

\* The holdings map of an uploaded migration file.
IncomingHoldings(doc) ==
    IF IsDict(doc) THEN Get(json_load(doc), "holdings", EmptyDict) ELSE EmptyDict

\* C6: a merge that succeeds inserts every incoming ticker that was absent,
\* with its absent optional fields defaulted; under overwrite it replaces
\* the record of every incoming ticker that was present; under add-only it
\* leaves every existing record field-for-field unchanged.
C6_MergeInsertsAndOverwrites ==
    [][(last'.op = "merge" /\ msg'.kind = "Merged successfully") =>
          LET inc == IncomingHoldings(last'.doc)
              overwrite == last'.mode = "Overwrite existing tickers with incoming data"
          IN  /\ \A t \in (DOMAIN inc) \ (DOMAIN H) : Hnext[t] = Defaulted(inc[t])
              /\ overwrite => \A t \in (DOMAIN inc) \cap (DOMAIN H) : Hnext[t] = Defaulted(inc[t])
              /\ ~overwrite => \A t \in DOMAIN H : Hnext[t] = H[t]]_vars

\* C6 witness: an overwrite merge added one ticker, with defaults filled in,
\* and replaced the record of another.
C6_Witness ==
    /\ last.op = "merge" /\ msg.kind = "Merged successfully"
    /\ last.mode = "Overwrite existing tickers with incoming data"
    /\ msg.added = 1 /\ msg.updated = 1
    /\ Alive /\ H[<<"A">>] = Defaulted(MinimalRec)

\* C7: a merge never deletes a holding: the tickers after a merge include
\* the tickers before it, in every portfolio, and after a merge that succeeds
\* they are exactly the union of the existing and the incoming tickers.
C7_MergeNeverDeletes ==
    [][last'.op = "merge" =>
          /\ (DOMAIN H) \subseteq (DOMAIN Hnext)
          /\ msg'.kind = "Merged successfully" =>
                 DOMAIN Hnext = (DOMAIN H) \cup (DOMAIN IncomingHoldings(last'.doc))
          /\ \A n \in DOMAIN Portfolios :
                 /\ n \in DOMAIN DATA'["portfolios"]
                 /\ (DOMAIN Portfolios[n]["holdings"]) \subseteq (DOMAIN DATA'["portfolios"][n]["holdings"])]_vars

\* C7 witness: a merge added two tickers and kept a holding that the
\* incoming file does not list.
C7_Witness ==
    /\ last.op = "merge" /\ msg.kind = "Merged successfully" /\ msg.added = 2
    /\ Alive /\ \E t \in DOMAIN H : t \notin DOMAIN IncomingHoldings(last.doc)

\* The step merges the current backup document under add-only mode.
MergesOwnExport ==
    /\ last'.op = "merge"
    /\ last'.doc = json_dumps(DATA)
    /\ last'.mode = "Add new tickers only"

\* C8: merging the portfolio's own current export (the backup document
\* json_dumps(DATA)) under add-only mode changes nothing, that is the
\* holdings, cash_uninvested, last_prices and settings of every portfolio stay
\* as they were, and it reports added = 0 and updated = 0.  A session that
\* restored a legacy document keeps its top-level "holdings", the backup
\* carries them and the merge adds them: this is the claim, and it is violated.
C8_OwnExportMergeChangesNothing ==
    [][MergesOwnExport =>
          /\ msg' = [kind |-> "Merged successfully", added |-> 0, updated |-> 0]
          /\ DOMAIN DATA'["portfolios"] = DOMAIN Portfolios
          /\ \A n \in DOMAIN Portfolios :
                 \A k \in {"holdings", "cash_uninvested", "last_prices", "settings"} :
                     DATA'["portfolios"][n][k] = Portfolios[n][k]]_vars

\* C9: restoring the current backup document yields, for every portfolio, the
\* holding set that was exported, field for field (absent optional fields
\* filled with their defaults).
C9_BackupRoundTrip ==
    [][(last'.op = "restore" /\ last'.doc = json_dumps(DATA)) =>
          /\ msg'.kind = "Backup restored"
          /\ DOMAIN DATA'["portfolios"] = DOMAIN Portfolios
          /\ \A n \in DOMAIN Portfolios :
                 LET before == Portfolios[n]["holdings"]
                     after == DATA'["portfolios"][n]["holdings"]
                 IN  /\ DOMAIN after = DOMAIN before
                     /\ \A t \in DOMAIN before : after[t] = Defaulted(before[t])]_vars

\* C9 witness: the current backup was restored, with a holding that has a
\* purchase price and dividends collected.
C9_Witness ==
    /\ last.op = "restore" /\ msg.kind = "Backup restored"
    /\ last.doc \notin RestoreDocs
    /\ Alive
    /\ \E t \in DOMAIN H :
           /\ H[t]["purchase_price"] = <<1>> /\ H[t]["dividends_collected"] = 1
    /\ json_load(last.doc)["portfolios"] = Portfolios

\* C10: after the user chooses a portfolio in the selector, a mutation
\* operates on the chosen portfolio: a holding just added is a holding of
\* the portfolio the selector shows.  The selector never changes
\* selected_portfolio: this is the claim, and it is violated.
C10_AddGoesToChosenPortfolio ==
    (last.op = "add" /\ msg.kind = "Added") =>
        /\ portfolio_selector \in DOMAIN Portfolios
        /\ upper(strip(last.tkr)) \in DOMAIN Portfolios[portfolio_selector]["holdings"]

\* The operations on the selected portfolio that C11 names.
PortfolioOps ==
    {"add", "edit", "delete", "dividend", "merge", "cash", "refresh", "update_all", "settings"}

\* C11: an add, edit, delete, dividend entry, merge, cash update, price
\* refresh or settings change on the selected portfolio leaves the holdings,
\* cash_uninvested, last_prices and settings of every other portfolio (and the
\* set of portfolios) unchanged.
C11_OtherPortfoliosUntouched ==
    [][last'.op \in PortfolioOps =>
          /\ DOMAIN DATA'["portfolios"] = DOMAIN Portfolios
          /\ \A n \in (DOMAIN Portfolios) \ {selected_portfolio} :
                 \A k \in {"holdings", "cash_uninvested", "last_prices", "settings"} :
                     DATA'["portfolios"][n][k] = Portfolios[n][k]]_vars

\* C11 witness: the selected portfolio was changed by one of the operations
\* while another portfolio had a holding, cash, a last price and settings of
\* its own.
C11_Witness ==
    /\ last.op \in PortfolioOps /\ msg.kind \in {"Added", "Merged successfully", "Updated"}
    /\ Alive /\ DOMAIN H # {}
    /\ \E n \in (DOMAIN Portfolios) \ {selected_portfolio} :
           /\ DOMAIN Portfolios[n]["holdings"] # {}
           /\ DOMAIN Portfolios[n]["holdings"] # DOMAIN H
           /\ Portfolios[n]["cash_uninvested"] = 7
           /\ Portfolios[n]["settings"] # portfolio_data["settings"]
           /\ DOMAIN Portfolios[n]["last_prices"] # {}

\* C12: after any sequence of add, edit, refresh and view operations every
\* last_prices entry holds a value that a successful price fetch returned for
\* that ticker (the source quotes Quote and nothing else).  Add and edit store
\* the typed purchase price in last_prices: this is the claim, and it is
\* violated.
C12_LastPricesWereFetched ==
    \A n \in DOMAIN Portfolios : \A t \in DOMAIN Portfolios[n]["last_prices"] :
        Portfolios[n]["last_prices"][t] = Quote

\* The Portfolio table and the True ADA table of the last run.
Rows == view.port.rows

AdaRows == view.trueada.rows

\* The fetch of this run returned a price for t (auto-price on).
Fetched(t) ==
    /\ portfolio_data["settings"]["auto_price"]
    /\ t \in DOMAIN price_cache /\ price_cache[t] # NaN

\* t has a price: a fetched one or else a last_prices entry.
PriceAvailable(t) == Fetched(t) \/ t \in DOMAIN portfolio_data["last_prices"]

PriceOf(t) == IF Fetched(t) THEN price_cache[t][1] ELSE portfolio_data["last_prices"][t]

\* The tickers of the selected portfolio whose price is available.
Priced == {t \in DOMAIN H : PriceAvailable(t)}

\* C13: a holding whose fetch is unavailable and which has no last_prices
\* entry has an unavailable market value and an unavailable per-row total
\* value (never zero); the portfolio's total_value is available and equals
\* the sum of shares * price over exactly the holdings with a price.
C13_UnavailableIsNotZero ==
    (Alive /\ DOMAIN Rows # {}) =>
        /\ DOMAIN Rows = DOMAIN H
        /\ \A t \in (DOMAIN H) \ Priced :
               Rows[t].CurrentValue = NaN /\ Rows[t].TotalValue = NaN /\ Rows[t].PriceNow = NaN
        /\ \A t \in Priced :
               /\ Rows[t].PriceNow = <<PriceOf(t)>>
               /\ Rows[t].CurrentValue = <<H[t]["shares"] * PriceOf(t)>>
        /\ view.port.total_value = <<SumOver([t \in Priced |-> H[t]["shares"] * PriceOf(t)])>>

\* C13 witness: one holding without any price beside a holding with shares
\* and a price; the total is the value of the priced one.
C13_Witness ==
    /\ Alive /\ DOMAIN Rows = {<<"A">>, <<"B">>}
    /\ ~PriceAvailable(<<"A">>) /\ PriceAvailable(<<"B">>)
    /\ H[<<"A">>]["shares"] = 3 /\ H[<<"B">>]["shares"] = 3
    /\ view.port.total_value = <<3 * PriceOf(<<"B">>)>>

\* C14: a row's overall return is (shares * price - total_invested) +
\* dividends_collected when the price is available and dividends_collected
\* alone when it is not; it is a number in both cases.
C14_RowOverallReturn ==
    (Alive /\ DOMAIN Rows # {}) =>
        \A t \in DOMAIN H :
            /\ Rows[t].OverallReturn \in Int
            /\ Rows[t].OverallReturn =
                   IF PriceAvailable(t)
                   THEN (H[t]["shares"] * PriceOf(t) - H[t]["total_invested"]) + H[t]["dividends_collected"]
                   ELSE H[t]["dividends_collected"]

\* C14 witness: a row without a price whose holding has money invested and
\* dividends collected, beside a priced row with a loss.
C14_Witness ==
    /\ Alive /\ DOMAIN Rows = {<<"A">>, <<"B">>}
    /\ ~PriceAvailable(<<"A">>) /\ H[<<"A">>]["total_invested"] = 5
    /\ Rows[<<"A">>].OverallReturn = 7
    /\ PriceAvailable(<<"B">>) /\ Rows[<<"B">>].OverallReturn < 0

\* The sign of a whole number.
Sign(x) == IF x > 0 THEN 1 ELSE IF x < 0 THEN -1 ELSE 0

\* C15: a row with total_invested > 0 has an overall return % that is
\* available, is overall_return / total_invested * 100 and has the sign of the
\* overall return; a row with total_invested = 0 has none (no division).
C15_RowReturnPct ==
    (Alive /\ DOMAIN Rows # {}) =>
        \A t \in DOMAIN H :
            LET i == H[t]["total_invested"]
                pct == Rows[t].OverallReturnPct
            IN  /\ i > 0 =>
                       /\ pct # NaN /\ pct[2] > 0
                       /\ Sign(pct[1]) = Sign(Rows[t].OverallReturn)
                       /\ pct[1] * i = Rows[t].OverallReturn * 100 * pct[2]
                /\ i = 0 => pct = NaN

\* C15 witness: rows with a negative and with a positive return on money
\* invested, and in another run a row with nothing invested.
C15_Witness ==
    /\ Alive /\ DOMAIN Rows = {<<"A">>, <<"B">>}
    /\ H[<<"A">>]["total_invested"] = 5 /\ Rows[<<"A">>].OverallReturn < 0
    /\ Rows[<<"A">>].OverallReturnPct[1] < 0
    /\ H[<<"B">>]["total_invested"] = 0 /\ Rows[<<"B">>].OverallReturn > 0

\* C16: for shares s > 0, total_invested i >= 0 and dividends d >= 0 the True
\* ADA of a row is the quotient (i - d) / s, so that true_ada * s = i - d; for
\* s = 0 it is unavailable; the Portfolio table and the True ADA table show the
\* same value.
C16_TrueAda ==
    (Alive /\ DOMAIN Rows # {}) =>
        /\ DOMAIN AdaRows = DOMAIN H
        /\ \A t \in DOMAIN H :
               LET s == H[t]["shares"]
                   i == H[t]["total_invested"]
                   d == H[t]["dividends_collected"]
                   ada == Rows[t].TrueADA
               IN  /\ (s > 0 /\ i >= 0 /\ d >= 0) =>
                          /\ ada # NaN /\ ada[2] > 0
                          /\ ada[1] * s = (i - d) * ada[2]
                   /\ s = 0 => ada = NaN
                   /\ AdaRows[t].TrueADA = ada

\* C16 witness: a holding whose dividends exceed its cost (negative True
\* ADA, not a whole number) beside one with zero shares and money invested.
C16_Witness ==
    /\ Alive /\ DOMAIN Rows = {<<"A">>, <<"B">>}
    /\ H[<<"A">>]["shares"] = 3 /\ Rows[<<"A">>].TrueADA = <<-2, 3>>
    /\ H[<<"B">>]["shares"] = 0 /\ H[<<"B">>]["total_invested"] = 5
    /\ AdaRows[<<"B">>].TrueADA = NaN

\* C17: the portfolio's overall return is total_value + cash_uninvested +
\* total_dividends - total_invested, the last two summed over all holdings and
\* total_value over the holdings with a price; its % is that return /
\* total_invested * 100 when total_invested > 0 and unavailable otherwise.
C17_PortfolioReturn ==
    (Alive /\ DOMAIN Rows # {}) =>
        LET total_invested == SumOver([t \in DOMAIN H |-> H[t]["total_invested"]])
            total_div == SumOver([t \in DOMAIN H |-> H[t]["dividends_collected"]])
            total_value == SumOver([t \in Priced |-> H[t]["shares"] * PriceOf(t)])
            ret == total_value + portfolio_data["cash_uninvested"] + total_div - total_invested
            pct == view.port.overall_return_pct
        IN  /\ view.port.overall_return = ret
            /\ total_invested > 0 =>
                   pct # NaN /\ pct[2] > 0 /\ pct[1] * total_invested = ret * 100 * pct[2]
            /\ total_invested <= 0 => pct = NaN

\* C17 witness: a portfolio with cash, dividends, one priced and one
\* unpriced holding, and in total a loss.
C17_Witness ==
    /\ Alive /\ DOMAIN Rows = {<<"A">>, <<"B">>}
    /\ portfolio_data["cash_uninvested"] = 5
    /\ ~PriceAvailable(<<"A">>) /\ PriceAvailable(<<"B">>)
    /\ H[<<"A">>]["dividends_collected"] = 1 /\ H[<<"B">>]["shares"] = 1
    /\ view.port.overall_return < 0 /\ view.port.overall_return_pct[1] < 0

\* The event dates of t's history within the trailing three years.
Qualifying(t) ==
    LET div == Get(source, t, NoHistory)
    IN  IF div.ok THEN {div.dates[i] : i \in 1..Len(div.dates)} \cap (Today - 1095)..(Today + 4000)
        ELSE {}

\* The day gap from each qualifying date to the next one.
GapsOf(t) ==
    LET Q == Qualifying(t)
    IN  [d \in {x \in Q : \E y \in Q : y > x} |->
            (CHOOSE y \in Q : y > d /\ \A z \in Q : z > d => y <= z) - d]

\* The k-th smallest value of f, k counted from 0.
Kth(f, k) ==
    CHOOSE v \in {f[d] : d \in DOMAIN f} :
        /\ Cardinality({d \in DOMAIN f : f[d] < v}) <= k
        /\ k < Cardinality({d \in DOMAIN f : f[d] <= v})

\* Twice the median of the gaps.
TwiceMedianGap(t) ==
    LET n == Cardinality(DOMAIN GapsOf(t))
    IN  Kth(GapsOf(t), (n - 1) \div 2) + Kth(GapsOf(t), n \div 2)

\* C18: the payout label of a holding is "Irregular/None" when its history
\* is missing or has fewer than 3 events within the trailing 3 years;
\* otherwise it is the label of the median m of the day gaps between
\* consecutive event dates in ascending order: Weekly m <= 9, Monthly m <= 45,
\* Quarterly m <= 115, Semiannual m <= 220, Annual m <= 400, else
\* Irregular/None.
C18_PayoutLabel ==
    \A t \in DOMAIN Rows :
        Rows[t].PayoutFreq =
            IF Cardinality(Qualifying(t)) < 3 THEN "Irregular/None"
            ELSE LET m2 == TwiceMedianGap(t)
                 IN  IF m2 <= 18 THEN "Weekly"
                     ELSE IF m2 <= 90 THEN "Monthly"
                     ELSE IF m2 <= 230 THEN "Quarterly"
                     ELSE IF m2 <= 440 THEN "Semiannual"
                     ELSE IF m2 <= 800 THEN "Annual"
                     ELSE "Irregular/None"

\* C18 witness: four events, given latest first, the oldest the day before
\* the cutoff; the gaps of the other three are 115 and 116 days (median 115.5)
\* and the label is Semiannual.
C18_Witness ==
    /\ <<"A">> \in DOMAIN Rows
    /\ source[<<"A">>].dates = Reverse(DatesFrom(Cutoff - 1, <<9, 115, 116>>))
    /\ Rows[<<"A">>].PayoutFreq = "Semiannual"

\* The messages with which add, edit, delete, merge and restore report a
\* failure.
ErrorKinds ==
    {"Ticker required.", "already exists", "Shares must be positive.", "Confirmation failed.",
     "Failed to merge", "Failed to restore"}

\* C19: whenever add, edit, delete, merge or restore reports an error, the
\* holdings, cash_uninvested and last_prices of every portfolio are what they
\* were before the operation.  A merge that fails on one incoming record has
\* already written the records before it: this is the claim, and it is
\* violated.
C19_FailedOperationWritesNothing ==
    [][(last'.op \in {"add", "edit", "delete", "merge", "restore"} /\ msg'.kind \in ErrorKinds) =>
          /\ DOMAIN DATA'["portfolios"] = DOMAIN Portfolios
          /\ \A n \in DOMAIN Portfolios :
                 \A k \in {"holdings", "cash_uninvested", "last_prices"} :
                     DATA'["portfolios"][n][k] = Portfolios[n][k]]_vars

\* C20: in every state reachable by add, edit, dividend-entry and delete
\* operations, with negative parsed inputs included, no holding has a negative
\* total_invested.  An edit with negative shares and a purchase price stores
\* shares * purchase_price: this is the claim, and it is violated.
C20_TotalInvestedNotNegative ==
    \A n \in DOMAIN Portfolios : \A t \in DOMAIN Portfolios[n]["holdings"] :
        Get(Portfolios[n]["holdings"][t], "total_invested", 0) >= 0

\* C21: in every state reachable by add, edit and dividend-entry operations,
\* negative parsed amounts included, no holding has a negative
\* dividends_collected.  The three handlers store and add the parsed amount
\* whatever its sign: this is the claim, and it is violated.
C21_DividendsNotNegative ==
    \A n \in DOMAIN Portfolios : \A t \in DOMAIN Portfolios[n]["holdings"] :
        Get(Portfolios[n]["holdings"][t], "dividends_collected", 0) >= 0

\* The last interaction saved a holding (add or edit), and its key.
Saved == last.op \in {"add", "edit"} /\ msg.kind \in {"Added", "Updated"}

SavedTicker == IF last.op = "add" THEN upper(strip(last.tkr)) ELSE last.tkr

\* The save had a positive purchase price (it is stored) and a positive
\* typed total.
SavedWithPriceAndTotal ==
    /\ Saved /\ Alive /\ SavedTicker \in DOMAIN H
    /\ H[SavedTicker]["purchase_price"] # None
    /\ last.inv > 0

\* C22 as stated: a holding saved with a positive purchase price and a
\* positive explicit total has total_invested = shares * purchase_price.
\* The code stores the explicit total.
C22_ComputedTotalWins ==
    SavedWithPriceAndTotal =>
        H[SavedTicker]["total_invested"] =
            H[SavedTicker]["shares"] * H[SavedTicker]["purchase_price"][1]

\* C22 amended: a holding saved by add or edit with a positive purchase
\* price and a positive explicit total has the explicit total as its
\* total_invested (the typed total overrides shares * purchase_price).
C22_ExplicitTotalWins ==
    SavedWithPriceAndTotal => H[SavedTicker]["total_invested"] = last.inv

\* C22 witness: shares 2 at price 1 saved with the total 3 typed in.
C22_Witness ==
    /\ SavedWithPriceAndTotal
    /\ H[SavedTicker]["shares"] = 2 /\ H[SavedTicker]["purchase_price"] = <<1>>
    /\ last.inv = 3 /\ H[SavedTicker]["total_invested"] = 3

\* C23: every key of a portfolio's holdings map is a non-empty upper-case
\* ticker without surrounding whitespace, so that no two holdings of one
\* portfolio differ only by case or whitespace.  A merge inserts the keys of
\* the uploaded file as they are: this is the claim, and it is violated.
C23_KeysAreUpperCaseTickers ==
    \A n \in DOMAIN Portfolios :
        /\ \A t \in DOMAIN Portfolios[n]["holdings"] : t # <<>> /\ upper(strip(t)) = t
        /\ \A t, u \in DOMAIN Portfolios[n]["holdings"] :
               upper(strip(t)) = upper(strip(u)) => t = u

\* C24: in every reachable logged-in state selected_portfolio is a key of
\* DATA["portfolios"], also after restoring a backup whose portfolios do not
\* include the selected name.  Restore replaces DATA and leaves
\* selected_portfolio as it was: this is the claim, and it is violated.
C24_SelectedPortfolioExists == selected_portfolio \in DOMAIN DATA["portfolios"]

\* The step just taken is one of the two refresh buttons.
RefreshStep == last'.op \in {"refresh", "update_all"}

\* Every memoised result, unavailable included, is still the memoised result.
MemoKept ==
    \A t \in DOMAIN price_cache : t \in DOMAIN price_cache' /\ price_cache'[t] = price_cache[t]

\* No entry of any last_prices map is written.
LastPricesKept ==
    \A n \in DOMAIN Portfolios :
        n \in DOMAIN DATA'["portfolios"] /\ DATA'["portfolios"][n]["last_prices"] = Portfolios[n]["last_prices"]

\* The last_prices entries a refresh writes are those of the tickers whose new
\* fetch is available, and they hold the fetched price.
RefreshWritesFetched ==
    \A n \in DOMAIN Portfolios : \A t \in DOMAIN DATA'["portfolios"][n]["last_prices"] :
        \/ /\ t \in DOMAIN Portfolios[n]["last_prices"]
           /\ DATA'["portfolios"][n]["last_prices"][t] = Portfolios[n]["last_prices"][t]
        \/ /\ n = selected_portfolio
           /\ t \in DOMAIN price_cache' /\ isfinite(price_cache'[t])
           /\ DATA'["portfolios"][n]["last_prices"][t] = price_cache'[t][1]

\* C25: price results are memoised per ticker, unavailable included; a step
\* that is not a refresh keeps every memoised result and writes no last_prices
\* entry, and a refresh writes last_prices only for the tickers whose new
\* fetch is available.  Add and edit write the typed purchase price to
\* last_prices: this is the claim, and it is violated.
C25_OnlyRefreshWritesPrices ==
    [][IF RefreshStep THEN RefreshWritesFetched ELSE MemoKept /\ LastPricesKept]_vars

====
